---- MODULE Spec2Model ----
(***************************************************************************)
(* Model of the live trading core of europewang/Q_for_simple:              *)
(*   live_trading/execution/order_executor.py        (OrderExecutor)       *)
(*   live_trading/risk_management/position_manager.py (PositionManager)    *)
(*   live_trading/risk_management/risk_manager.py    (RiskManager)         *)
(*   live_trading/main.py                            (LiveTradingSystem)   *)
(*                                                                         *)
(* Three specifications share the state:                                   *)
(*   SpecExec  callers of OrderExecutor.execute_signal / cancel_order      *)
(*   SpecPM    callers of the PositionManager operations                   *)
(*   SpecSys   the running LiveTradingSystem: the asyncio tasks created    *)
(*             per market bar and the periodic main loop                   *)
(* An action is one atomic segment of a coroutine: the code between two    *)
(* awaits that suspend, which the single event loop runs without           *)
(* interleaving.                                                           *)
(***************************************************************************)
EXTENDS Integers, Sequences, FiniteSets, TLC

(* ------------------------------ bounds --------------------------------- *)
\* Orders created in one run of SpecExec.
MaxExecOrders == 2
\* Millisecond clock values used for order ids (time.time() * 1000).
MaxClock == 1
\* Largest max_retry_count explored.
MaxRetry == 1

Symbols == {"BTCUSDT", "ETHUSDT"}
\* config.trading.symbol: the one symbol the running system trades.
TradingSymbol == "BTCUSDT"
\* The coroutines/callers that can be inside the executor.
DataTasks == {"t1", "t2", "t3"}
Procs == DataTasks \cup {"main"}
\* Callers of the executor API in SpecExec.
Callers == {"t1", "t2"}

(* --------------------------- exact arithmetic -------------------------- *)
\* Prices, sizes and PnL are Python floats; they are modelled as exact
\* rationals <<numerator, denominator>> in lowest terms, denominator > 0.
RECURSIVE GCD(_, _)
GCD(a, b) == IF b = 0 THEN a ELSE GCD(b, a % b)

Abs(x) == IF x < 0 THEN -x ELSE x

Norm(n, d) ==
    LET g == GCD(Abs(n), Abs(d))
        s == IF d < 0 THEN -1 ELSE 1
    IN  IF n = 0 THEN <<0, 1>> ELSE <<(s * n) \div g, (s * d) \div g>>

R(x) == <<x, 1>>
RAdd(a, b) == Norm(a[1] * b[2] + b[1] * a[2], a[2] * b[2])
RSub(a, b) == Norm(a[1] * b[2] - b[1] * a[2], a[2] * b[2])
RMul(a, b) == Norm(a[1] * b[1], a[2] * b[2])
RDiv(a, b) == Norm(a[1] * b[2], a[2] * b[1])
RLt(a, b) == a[1] * b[2] < b[1] * a[2]
RLe(a, b) == a[1] * b[2] <= b[1] * a[2]
RZero == <<0, 1>>

(* ------------------------------- state --------------------------------- *)
VARIABLES
    now,             \* int(time.time() * 1000), the clock behind order ids
    config,          \* the configuration the components were built with
    order_executor,  \* OrderExecutor: the Order objects and its three tables
    pc,              \* where each coroutine is suspended
    ctx,             \* the locals of each coroutine
    position_manager,\* PositionManager: positions (dict) and position_history
    pm_call,         \* the last PositionManager call, its arguments and result
    steps,           \* number of PositionManager calls made (bounds the run)
    running,         \* LiveTradingSystem.running
    risk_manager,    \* RiskManager: trading_enabled and the daily statistics
    strategy,        \* LiveSimpleEMAStrategy: last_signal_action
    bars,            \* number of bars the data feed has delivered
    rm_call,         \* the last RiskManager call, its arguments and result
    feed,            \* MarketDataFeed: is_running, data_queue, worker threads
    feed_call,       \* the last start()/stop() call made on the feed
    exchange,        \* MockExchangeConnector: mock_orders, order_counter, callers
    shutdown         \* what stop() of the LiveTradingSystem has completed

execVars == <<now, config, order_executor, pc, ctx>>
pmVars == <<position_manager, pm_call, steps>>
sysVars == <<running, risk_manager, strategy, bars>>
auxVars == <<rm_call, feed, feed_call, exchange, shutdown>>
vars == <<now, config, order_executor, pc, ctx, position_manager, pm_call, steps,
          running, risk_manager, strategy, bars, rm_call, feed, feed_call,
          exchange, shutdown>>

Terminal == {"FILLED", "FAILED", "CANCELLED"}

\* A coroutine's locals: the order it executes, the outcome of the execution
\* path ("success", "fail": an unsuccessful ExecutionResult, "raise": an
\* exception), the ExecutionResult execute_order returned, whether the
\* callback raised, and what the executor held for the order at the return.
NoRet == [status |-> "none", pending |-> FALSE, completed |-> 0, failed |-> 0,
          filled_cb |-> 0, failed_cb |-> 0]
NoPosition == [symbol |-> "None"]
NoCtx == [ord |-> 0, outcome |-> "none", result |-> "none", cb_raised |-> FALSE,
          ret |-> NoRet, close |-> <<0, 0>>, signal |-> "None",
          position |-> NoPosition, closes |-> 0]

\* The worker threads a feed can create, and its registered callbacks in
\* the order of MarketDataFeed.callbacks.
Workers == {"w1", "w2"}
Callbacks == <<"cb1", "cb2">>

\* MarketDataFeed.__init__ / BinanceDataFeed.__init__ / MockDataFeed.__init__:
\* not running, an empty queue, no worker thread.  socket is the kline
\* socket ("none", "open", "closed"); call_pc is "connecting" while start()
\* is between starting its worker thread and the end of its try block,
\* "joining" while stop() waits for the worker thread.
\* Messages and generated bars are numbered in arrival order by received;
\* accepted is the set of bars put on data_queue, delivered[k] lists the
\* bars callback k was called with, raised the bars on which some callback
\* raised, starter the thread whose start() call started the feed.
EmptyFeed(kind) ==
    [kind |-> kind, is_running |-> FALSE, socket |-> "none",
     call_pc |-> "idle",
     data_queue |-> <<>>, worker_thread |-> "None",
     workers |-> [w \in Workers |-> [state |-> "unborn", bar |-> 0]],
     received |-> 0, accepted |-> {},
     delivered |-> [k \in 1..Len(Callbacks) |-> <<>>],
     raised |-> {}, starter |-> "None"]

NoRmCall == [op |-> "none", n |-> 0]
NoFeedCall == [op |-> "none", n |-> 0, caller |-> "None", noop |-> FALSE]

\* MockExchangeConnector.__init__: no positions (mock_positions is written
\* nowhere else), no orders, order_counter = 1.  creating[c]
\* is the id of the MARKET order whose create_order call by c is suspended
\* in its simulated latency (0: none), issued lists the ids create_order has
\* assigned, cancelled the ids for which cancel_order returned True.
MockCallers == {"c1", "c2"}
EmptyExchange ==
    [mock_positions |-> {}, mock_orders |-> <<>>, order_counter |-> 1,
     creating |-> [c \in MockCallers |-> 0],
     issued |-> <<>>, cancelled |-> {},
     last_cancel |-> [order_id |-> 0, ret |-> FALSE, status |-> "None"]]

InitAux ==
    /\ rm_call = NoRmCall
    /\ feed = EmptyFeed("binance")
    /\ feed_call = NoFeedCall
    /\ exchange = EmptyExchange
    /\ shutdown = <<>>

\* dict helpers: a dict is a function whose DOMAIN is its key set.
DictPut(d, k, v) == [x \in (DOMAIN d) \cup {k} |-> IF x = k THEN v ELSE d[x]]
DictDel(d, k) == [x \in (DOMAIN d) \ {k} |-> d[x]]

(* -------------------------- PositionManager ---------------------------- *)
\* A Position keeps symbol, side, size, entry_price, current_price,
\* unrealized_pnl and realized_pnl; margin, percentage, timestamp and
\* order_id are derived or descriptive and are left out.
EmptyPositionManager == [positions |-> <<>>, position_history |-> <<>>]
NoCall == [op |-> "none"]

\* has_position
HasPosition(pm, symbol) ==
    symbol \in DOMAIN pm.positions /\ RLt(RZero, pm.positions[symbol].size)

\* get_all_positions / can_open_new_position
ActivePositions(pm) == {s \in DOMAIN pm.positions : RLt(RZero, pm.positions[s].size)}

\* The Position class (shared/models/trade_models.py) is not part of the
\* sources.  _on_order_filled passes the side as the str "LONG" where the
\* other code expects a PositionSide; what the Position then holds depends
\* on that class, and config.position_side enumerates the outcomes:
\*   "enum"    the str is converted to PositionSide.LONG        (side "LONG")
\*   "str_eq"  the str is kept and equals PositionSide.LONG     ("LONG_str")
\*   "str_ne"  the str is kept and differs from every member    ("LONG_str")
PositionSideKinds == {"enum", "str_eq", "str_ne"}

\* position.side == PositionSide.LONG
IsLong(side) ==
    side = "LONG" \/ (side = "LONG_str" /\ config.position_side = "str_eq")

\* position.side.value raises AttributeError on a str.
SideValueRaises(side) == side = "LONG_str"

\* The PnL of a position of the given side and size between two prices.
PnLSwapped(side, entry_price, price, size) ==
    IF IsLong(side) THEN RMul(RSub(entry_price, price), size)
                     ELSE RMul(RSub(price, entry_price), size)
PnL(side, entry_price, price, size) ==
    IF IsLong(side) THEN RMul(RSub(price, entry_price), size)
                     ELSE RMul(RSub(entry_price, price), size)

\* close_position lines 185-213: the record appended to position_history.
\* NoPrice is close_price = None, the default argument.
NoPrice == <<0, 0>>
ClosePrice(position, close_price) ==
    IF close_price = NoPrice THEN position.current_price ELSE close_price

ClosedPosition(position, close_price) ==
    LET price == ClosePrice(position, close_price)
    IN  [symbol |-> position.symbol, side |-> position.side,
         size |-> position.size, entry_price |-> position.entry_price,
         current_price |-> price, unrealized_pnl |-> RZero,
         realized_pnl |-> PnL(position.side, position.entry_price, price, position.size)]

\* close_position: None (no change) without a live position; otherwise the
\* history record is appended and the entry deleted.
PmCloseNoHistory(pm, symbol, close_price) ==
    IF ~HasPosition(pm, symbol) THEN pm
    ELSE [pm EXCEPT !.positions = DictDel(@, symbol)]
PmClose(pm, symbol, close_price) ==
    IF ~HasPosition(pm, symbol) THEN pm
    ELSE [positions |-> DictDel(pm.positions, symbol),
          position_history |->
              Append(pm.position_history,
                     ClosedPosition(pm.positions[symbol], close_price))]

\* open_position lines 119-137: the new Position.
NewPosition(symbol, side, size, entry_price) ==
    [symbol |-> symbol, side |-> side, size |-> size,
     entry_price |-> entry_price, current_price |-> entry_price,
     unrealized_pnl |-> RZero, realized_pnl |-> RZero]

PmCreate(pm, symbol, side, size, entry_price) ==
    [pm EXCEPT !.positions =
        DictPut(@, symbol, NewPosition(symbol, side, size, entry_price))]

\* _add_to_position: size-weighted average entry price.
PmAddKeepEntry(pm, symbol, additional_size, price) ==
    [pm EXCEPT !.positions[symbol].size = RAdd(@, additional_size)]
PmAdd(pm, symbol, additional_size, price) ==
    LET position == pm.positions[symbol]
        total_cost == RAdd(RMul(position.size, position.entry_price),
                           RMul(additional_size, price))
        new_size == RAdd(position.size, additional_size)
    IN  [pm EXCEPT !.positions[symbol].size = new_size,
                   !.positions[symbol].entry_price = RDiv(total_cost, new_size)]

\* open_position lines 115-117 then 119-137: with a live position of the
\* opposite side the manager closes it itself (at its current_price) and
\* then creates the new position.
PmOpenOppositeNoClose(pm, symbol, side, size, entry_price) ==
    PmCreate(pm, symbol, side, size, entry_price)
PmOpenOpposite(pm, symbol, side, size, entry_price) ==
    PmCreate(PmClose(pm, symbol, NoPrice), symbol, side, size, entry_price)

\* open_position
PmOpen(pm, symbol, side, size, entry_price) ==
    IF HasPosition(pm, symbol)
    THEN IF pm.positions[symbol].side = side
         THEN PmAdd(pm, symbol, size, entry_price)
         ELSE PmOpenOpposite(pm, symbol, side, size, entry_price)
    ELSE PmCreate(pm, symbol, side, size, entry_price)

\* reduce_position
PmReduce(pm, symbol, reduce_size, price) ==
    IF ~HasPosition(pm, symbol) THEN pm
    ELSE LET position == pm.positions[symbol]
         IN  IF RLe(position.size, reduce_size)
             THEN PmClose(pm, symbol, price)
             ELSE [pm EXCEPT
                     !.positions[symbol].size = RSub(@, reduce_size),
                     !.positions[symbol].realized_pnl =
                         RAdd(@, PnL(position.side, position.entry_price,
                                     price, reduce_size))]

\* update_position_price
PmUpdatePrice(pm, symbol, current_price) ==
    IF ~HasPosition(pm, symbol) THEN pm
    ELSE LET position == pm.positions[symbol]
         IN  [pm EXCEPT
                !.positions[symbol].current_price = current_price,
                !.positions[symbol].unrealized_pnl =
                    PnL(position.side, position.entry_price, current_price,
                        position.size)]

\* get_total_realized_pnl: realized_pnl summed over the entries of
\* positions and over position_history.
RECURSIVE SumHistory(_)
SumHistory(history) ==
    IF history = <<>> THEN RZero
    ELSE RAdd(Head(history).realized_pnl, SumHistory(Tail(history)))
RECURSIVE SumPositions(_, _)
SumPositions(positions, symbols) ==
    IF symbols = {} THEN RZero
    ELSE LET s == CHOOSE x \in symbols : TRUE
         IN  RAdd(positions[s].realized_pnl, SumPositions(positions, symbols \ {s}))
GetTotalRealizedPnl(pm) ==
    RAdd(SumPositions(pm.positions, DOMAIN pm.positions),
         SumHistory(pm.position_history))

\* cleanup_expired_positions: the zero-size entries older than
\* position_timeout (the set `expired`) are deleted.
PmCleanup(pm, expired) ==
    [pm EXCEPT !.positions =
        [s \in {x \in DOMAIN pm.positions :
                  ~(x \in expired /\ pm.positions[x].size = RZero)}
            |-> pm.positions[s]]]

\* can_open_new_position: fewer live positions than max_positions.
CanOpenAlways(pm) == TRUE
CanOpenNewPosition(pm) ==
    Cardinality(ActivePositions(pm)) < config.max_positions

\* PositionManager.__init__: max_positions defaults to 5.
DefaultMaxPositions == 5

(* ----------------------------- RiskManager ----------------------------- *)
\* The risk parameters (RiskManager.__init__ defaults).
MaxDrawdownPercentage == <<1, 10>>
MaxDailyLossPercentage == <<1, 20>>
StopLossPercentage == <<1, 50>>
TakeProfitPercentage == <<3, 50>>
MaxTradesPerDay == 50

EmptyRiskManager ==
    [trading_enabled |-> TRUE, trades_today |-> 0, daily_pnl |-> RZero,
     daily_start_balance |-> RZero, current_balance |-> RZero,
     peak_balance |-> RZero, current_drawdown |-> RZero]

\* update_account_info: balance, peak and drawdown (the alerts of
\* _check_risk_limits are log lines only).
UpdateAccountInfo(rm, balance) ==
    LET peak == IF RLt(rm.peak_balance, balance) THEN balance ELSE rm.peak_balance
    IN  [rm EXCEPT !.current_balance = balance,
                   !.peak_balance = peak,
                   !.current_drawdown =
                       IF RLt(RZero, peak) THEN RDiv(RSub(peak, balance), peak)
                                           ELSE @]

\* reset_daily_stats
ResetDailyStats(rm) ==
    [rm EXCEPT !.daily_start_balance = rm.current_balance,
               !.daily_pnl = RZero, !.trades_today = 0]

\* validate_signal
ValidateSignalNoDailyLoss(rm) ==
    /\ rm.trading_enabled
    /\ rm.trades_today < MaxTradesPerDay
    /\ ~RLt(MaxDrawdownPercentage, rm.current_drawdown)
ValidateSignal(rm) ==
    LET daily_loss_percentage ==
            IF RLt(RZero, rm.daily_start_balance)
            THEN RDiv(<<Abs(rm.daily_pnl[1]), rm.daily_pnl[2]>>, rm.daily_start_balance)
            ELSE RZero
    IN  /\ rm.trading_enabled
        /\ rm.trades_today < MaxTradesPerDay
        /\ ~RLt(MaxDrawdownPercentage, rm.current_drawdown)
        /\ ~(RLt(rm.daily_pnl, RZero)
              /\ RLt(MaxDailyLossPercentage, daily_loss_percentage))

\* calculate_position_size: available_balance * max_position_percentage *
\* strength, raised to min_position_size, then cut to available_balance *
\* 0.95 and to available_balance * max_leverage (in this order).
MaxPositionPercentage == <<19, 20>>
MinPositionSize == <<10, 1>>
MaxLeverage == <<20, 1>>
SizeCeilingFactor == <<19, 20>>
RMax(a, b) == IF RLt(a, b) THEN b ELSE a
RMin(a, b) == IF RLt(b, a) THEN b ELSE a
CalculatePositionSizeNoCeiling(available_balance, strength, percentage, min_size, leverage) ==
    RMin(RMax(RMul(RMul(available_balance, percentage), strength), min_size),
         RMul(available_balance, leverage))
CalculatePositionSize(available_balance, strength, percentage, min_size, leverage) ==
    LET base_position_size == RMul(available_balance, percentage)
        adjusted1 == RMul(base_position_size, strength)
        adjusted2 == RMax(adjusted1, min_size)
        adjusted3 == RMin(adjusted2, RMul(available_balance, SizeCeilingFactor))
        max_position_with_leverage == RMul(available_balance, leverage)
    IN  RMin(adjusted3, max_position_with_leverage)

\* should_force_close_position: stop loss or take profit reached.
ShouldForceCloseStrict(position, current_price) ==
    LET pnl_percentage ==
            IF IsLong(position.side)
            THEN RDiv(RSub(current_price, position.entry_price), position.entry_price)
            ELSE RDiv(RSub(position.entry_price, current_price), position.entry_price)
    IN  \/ RLt(pnl_percentage, RSub(RZero, StopLossPercentage))
        \/ RLt(TakeProfitPercentage, pnl_percentage)
ShouldForceClosePosition(position, current_price) ==
    LET pnl_percentage ==
            IF IsLong(position.side)
            THEN RDiv(RSub(current_price, position.entry_price), position.entry_price)
            ELSE RDiv(RSub(position.entry_price, current_price), position.entry_price)
    IN  \/ RLe(pnl_percentage, RSub(RZero, StopLossPercentage))
        \/ RLe(TakeProfitPercentage, pnl_percentage)

\* record_trade
RecordTrade(rm, pnl) ==
    [rm EXCEPT !.trades_today = @ + 1, !.daily_pnl = RAdd(@, pnl)]

(* --------------------------- OrderExecutor ----------------------------- *)
\* _create_order_from_signal: the id is "<symbol>_<ms>", status CREATED.
\* filled_cb / failed_cb count the callback invocations for the order.
CreateOrderFromSignal(symbol, action, quantity, price) ==
    [order_id |-> <<symbol, now>>, symbol |-> symbol, side |-> action,
     quantity |-> quantity, price |-> price, status |-> "CREATED",
     filled_price |-> RZero, filled_quantity |-> RZero,
     filled_cb |-> 0, failed_cb |-> 0]

SetStatus(ex, i, st) ==
    [ex EXCEPT !.orders[i].status = st]

\* execute_order lines 107-109: register as pending, status PENDING.
ExRegister(ex, order) ==
    LET i == Len(ex.orders) + 1
        e1 == [ex EXCEPT !.orders = Append(@, order)]
        e2 == [e1 EXCEPT !.pending_orders = DictPut(@, order.order_id, i)]
    IN  SetStatus(e2, i, "PENDING")

\* _execute_order_simulation: the fill price with the simulated slippage
\* (simulation_slippage = 0.0005 = 1/2000).
SimulationSlippage == <<1, 2000>>
SimFilledPrice(order) ==
    IF order.side = "BUY"
    THEN RMul(order.price, RAdd(R(1), SimulationSlippage))
    ELSE RMul(order.price, RSub(R(1), SimulationSlippage))

\* execute_order lines 119-126: a successful result.
ExFilled(ex, i) ==
    LET e1 == [ex EXCEPT !.orders[i].status = "FILLED",
                         !.orders[i].filled_price = SimFilledPrice(ex.orders[i]),
                         !.orders[i].filled_quantity = ex.orders[i].quantity]
    IN  [e1 EXCEPT !.completed_orders = Append(@, i)]

\* execute_order lines 133-135: an unsuccessful result.
ExFailedResult(ex, i) ==
    LET e1 == SetStatus(ex, i, "FAILED")
    IN  [e1 EXCEPT !.failed_orders = Append(@, i)]

\* execute_order lines 143-145.
ExRemovePending(ex, i) ==
    LET id == ex.orders[i].order_id
    IN  IF id \in DOMAIN ex.pending_orders
        THEN [ex EXCEPT !.pending_orders = DictDel(@, id)]
        ELSE ex

\* execute_order lines 149-164: the except branch.
ExExcept(ex, i) ==
    ExRemovePending(ExFailedResult(ex, i), i)

\* _safe_callback: TRUE when the exception of the callback leaves
\* _safe_callback (it never does: the try/except catches Exception).
SafeCallbackUnsafe(raises) == raises
SafeCallbackPropagates(raises) == FALSE

\* _execute_order_real: with max_retry_count = 0 the while loop is skipped
\* and the coroutine returns None; otherwise the first attempt awaits
\* _execute_order_simulation and returns its result.
RealReturnsNone == config.max_retry_count = 0

\* execute_order: TRUE when the execution path awaits the simulated latency.
ExecutionSleeps == config.simulation_mode \/ ~RealReturnsNone

\* How often order i occurs in a list of orders.
Occurrences(list, i) == Cardinality({k \in 1..Len(list) : list[k] = i})

\* What the executor holds for order i (observed when execute_order returns).
Snapshot(ex, i) ==
    [status |-> ex.orders[i].status,
     pending |-> (ex.orders[i].order_id \in DOMAIN ex.pending_orders),
     completed |-> Occurrences(ex.completed_orders, i),
     failed |-> Occurrences(ex.failed_orders, i),
     filled_cb |-> ex.orders[i].filled_cb,
     failed_cb |-> ex.orders[i].failed_cb]

InFlight(p) == pc[p] \in {"sim_sleep", "filled_cb", "failed_cb"}

EmptyExecutor ==
    [orders |-> <<>>, pending_orders |-> <<>>,
     completed_orders |-> <<>>, failed_orders |-> <<>>]

InitExec ==
    /\ now = 0
    /\ config \in [simulation_mode : BOOLEAN, max_retry_count : 0..MaxRetry,
                    callbacks_set : BOOLEAN, max_positions : {DefaultMaxPositions},
                    position_side : {"enum"}]
    /\ order_executor = EmptyExecutor
    /\ pc = [p \in Procs |-> "idle"]
    /\ ctx = [p \in Procs |-> NoCtx]
    /\ position_manager = EmptyPositionManager
    /\ pm_call = NoCall
    /\ steps = 0
    /\ running = FALSE
    /\ risk_manager = EmptyRiskManager
    /\ strategy = [last_signal_action |-> "None"]
    /\ bars = 0
    /\ InitAux

\* time.time() advances.
Tick ==
    /\ now < MaxClock
    /\ now' = now + 1
    /\ UNCHANGED <<auxVars, config, order_executor, pc, ctx, pmVars, sysVars>>

\* execute_signal -> _create_order_from_signal -> execute_order, up to the
\* first await that suspends.  On the live path with max_retry_count = 0
\* _execute_order_real returns None, result.success raises AttributeError
\* and the except branch finishes the call without suspending.
ExecuteSignal(c, symbol, action) ==
    /\ pc[c] \in {"idle", "done"}
    /\ Len(order_executor.orders) < MaxExecOrders
    /\ LET order == CreateOrderFromSignal(symbol, action, R(1), R(100))
           e1 == ExRegister(order_executor, order)
           i == Len(e1.orders)
       IN  IF ExecutionSleeps
           THEN /\ order_executor' = e1
                /\ pc' = [pc EXCEPT ![c] = "sim_sleep"]
                /\ ctx' = [ctx EXCEPT ![c] = [NoCtx EXCEPT !.ord = i]]
           ELSE LET e2 == ExExcept(e1, i)
                IN  /\ order_executor' = e2
                    /\ pc' = [pc EXCEPT ![c] = "done"]
                    /\ ctx' = [ctx EXCEPT ![c] =
                                 [NoCtx EXCEPT !.ord = i, !.outcome = "raise",
                                               !.result = "failure",
                                               !.ret = Snapshot(e2, i)]]
    /\ UNCHANGED <<auxVars, now, config, pmVars, sysVars>>

\* execute_order resumes after asyncio.sleep(simulation_latency): the
\* simulated result (random.random() < 0.95), the status and list update,
\* and the call of the registered callback, which may suspend.
SimResume(c, success) ==
    /\ pc[c] = "sim_sleep"
    /\ LET i == ctx[c].ord
           e1 == IF success THEN ExFilled(order_executor, i)
                            ELSE ExFailedResult(order_executor, i)
           e2 == IF success THEN [e1 EXCEPT !.orders[i].filled_cb = @ + 1]
                            ELSE [e1 EXCEPT !.orders[i].failed_cb = @ + 1]
           e3 == ExRemovePending(e1, i)
           out == IF success THEN "success" ELSE "fail"
       IN  IF config.callbacks_set
           THEN /\ order_executor' = e2
                /\ pc' = [pc EXCEPT ![c] = IF success THEN "filled_cb" ELSE "failed_cb"]
                /\ ctx' = [ctx EXCEPT ![c].outcome = out]
           ELSE /\ order_executor' = e3
                /\ pc' = [pc EXCEPT ![c] = "done"]
                /\ ctx' = [ctx EXCEPT ![c].outcome = out,
                                      ![c].result = IF success THEN "success" ELSE "failure",
                                      ![c].ret = Snapshot(e3, i)]
    /\ UNCHANGED <<auxVars, now, config, pmVars, sysVars>>

\* The callback returns or raises inside _safe_callback; execute_order then
\* removes the order from pending_orders and returns the result.  An
\* exception leaving _safe_callback would land in execute_order's except.
CallbackReturn(c, raises) ==
    /\ pc[c] \in {"filled_cb", "failed_cb"}
    /\ LET i == ctx[c].ord
           caught == ~SafeCallbackPropagates(raises)
           e1 == IF caught THEN ExRemovePending(order_executor, i)
                           ELSE ExExcept(order_executor, i)
       IN  /\ order_executor' = e1
           /\ ctx' = [ctx EXCEPT ![c].cb_raised = raises,
                                 ![c].result = IF caught /\ pc[c] = "filled_cb"
                                               THEN "success" ELSE "failure",
                                 ![c].ret = Snapshot(e1, i)]
    /\ pc' = [pc EXCEPT ![c] = "done"]
    /\ UNCHANGED <<auxVars, now, config, pmVars, sysVars>>

\* cancel_order (a coroutine without awaits: one atomic step).
\* Returns False and changes nothing for an id that is not pending and on
\* the live path (not implemented there).
ExCancel(ex, id) ==
    IF id \in DOMAIN ex.pending_orders /\ config.simulation_mode
    THEN LET i == ex.pending_orders[id]
         IN  [SetStatus(ex, i, "CANCELLED") EXCEPT !.pending_orders = DictDel(@, id)]
    ELSE ex

CancelOrder(id) ==
    /\ order_executor' = ExCancel(order_executor, id)
    /\ UNCHANGED <<auxVars, now, config, pc, ctx, pmVars, sysVars>>

OrderIds == {TradingSymbol} \X (0..MaxClock)

\* The callers submit BUY signals for the trading symbol: the side only picks
\* the sign of the simulated slippage.
NextExec ==
    \/ Tick
    \/ \E c \in Callers : ExecuteSignal(c, TradingSymbol, "BUY")
    \/ \E c \in Callers, ok \in BOOLEAN : SimResume(c, ok)
    \/ \E c \in Callers, r \in BOOLEAN : CallbackReturn(c, r)
    \/ \E id \in OrderIds : CancelOrder(id)

SpecExec == InitExec /\ [][NextExec]_vars

(* ----------------------- PositionManager callers ----------------------- *)
\* Calls of the PositionManager operations made in one run of SpecPM.
MaxPMCalls == 3
Sides == {"LONG", "SHORT"}
Sizes == {R(0), R(1), R(2)}
Prices == {R(100), R(120)}

InitPM ==
    /\ InitExec
    /\ config = [simulation_mode |-> TRUE, max_retry_count |-> MaxRetry,
                 callbacks_set |-> TRUE, max_positions |-> DefaultMaxPositions,
                 position_side |-> "enum"]

PmStep(op, symbol, pm2) ==
    /\ steps < MaxPMCalls
    /\ steps' = steps + 1
    /\ position_manager' = pm2
    /\ UNCHANGED <<auxVars, execVars, sysVars>>

OpenPosition(symbol, side, size, entry_price) ==
    /\ PmStep("open", symbol,
              PmOpen(position_manager, symbol, side, size, entry_price))
    /\ pm_call' = [op |-> "open_position", symbol |-> symbol, side |-> side,
                   size |-> size, price |-> entry_price]

ClosePosition(symbol, close_price) ==
    /\ PmStep("close", symbol, PmClose(position_manager, symbol, close_price))
    /\ pm_call' = [op |-> "close_position", symbol |-> symbol,
                   price |-> close_price,
                   ret |-> IF HasPosition(position_manager, symbol)
                           THEN "closed" ELSE "None"]

ReducePosition(symbol, reduce_size, price) ==
    /\ PmStep("reduce", symbol,
              PmReduce(position_manager, symbol, reduce_size, price))
    /\ pm_call' = [op |-> "reduce_position", symbol |-> symbol,
                   size |-> reduce_size, price |-> price]

UpdatePositionPrice(symbol, current_price) ==
    /\ PmStep("update", symbol,
              PmUpdatePrice(position_manager, symbol, current_price))
    /\ pm_call' = [op |-> "update_position_price", symbol |-> symbol,
                   price |-> current_price]

CleanupExpiredPositions(expired) ==
    /\ PmStep("cleanup", "", PmCleanup(position_manager, expired))
    /\ pm_call' = [op |-> "cleanup_expired_positions"]

NextPM ==
    \/ \E s \in Symbols, d \in Sides, z \in Sizes, p \in Prices :
           OpenPosition(s, d, z, p)
    \/ \E s \in Symbols, p \in Prices \cup {NoPrice} : ClosePosition(s, p)
    \/ \E s \in Symbols, z \in Sizes \ {RZero}, p \in Prices :
           ReducePosition(s, z, p)
    \/ \E s \in Symbols, p \in Prices : UpdatePositionPrice(s, p)
    \/ \E e \in SUBSET Symbols : CleanupExpiredPositions(e)

SpecPM == InitPM /\ [][NextPM]_vars

(* ------------------------ claims on PositionManager -------------------- *)
Positions == position_manager.positions
History == position_manager.position_history
Live(s) == HasPosition(position_manager, s)
LiveNext(s) == HasPosition(position_manager', s)

\* The call that has just been made is open_position for symbol s with the
\* side opposite to the live position of s.
OpensOpposite(s) ==
    /\ steps' = steps + 1
    /\ pm_call'.op = "open_position" /\ pm_call'.symbol = s
    /\ Live(s) /\ pm_call'.side # Positions[s].side

C9_NoAutoFlip ==
    [][\A s \in Symbols :
         OpensOpposite(s) =>
             /\ LiveNext(s)
             /\ position_manager'.positions[s] = Positions[s]
             /\ position_manager'.position_history = History]_vars

\* C9 (amended): open_position for a symbol that holds a live position of the
\* opposite side closes that position itself at its current_price (one
\* history record with the PnL realized at that price) and replaces it by a
\* new position with the requested side, size and entry price.
C9_AutoFlipClosesFirst ==
    [][\A s \in Symbols :
         OpensOpposite(s) =>
             LET h == position_manager'.position_history
                 old == Positions[s]
                 new == position_manager'.positions[s]
             IN  /\ Len(h) = Len(History) + 1
                 /\ h[Len(h)].side = old.side /\ h[Len(h)].size = old.size
                 /\ h[Len(h)].current_price = old.current_price
                 /\ h[Len(h)].realized_pnl =
                        (IF old.side = "LONG"
                         THEN RMul(RSub(old.current_price, old.entry_price), old.size)
                         ELSE RMul(RSub(old.entry_price, old.current_price), old.size))
                 /\ new.side = pm_call'.side /\ new.size = pm_call'.size
                 /\ new.entry_price = pm_call'.price
                 /\ new.realized_pnl = RZero]_vars

C9_Witness ==
    /\ pm_call.op = "open_position" /\ pm_call.side = "SHORT"
    /\ History # <<>>
    /\ History[Len(History)].symbol = pm_call.symbol
    /\ History[Len(History)].side = "LONG"
    /\ History[Len(History)].realized_pnl # RZero
    /\ HasPosition(position_manager, pm_call.symbol)
    /\ Positions[pm_call.symbol].side = "SHORT"
    /\ Positions[pm_call.symbol].realized_pnl = RZero

(* ------------------------- claims on OrderExecutor --------------------- *)
Orders == order_executor.orders
OrderIdx == 1..Len(Orders)

\* C3 (as claimed): an order's status only moves CREATED -> PENDING ->
\* {FILLED, FAILED, CANCELLED}, and a terminal status never changes again,
\* under any interleaving of execute_order and cancel_order.
C3_StatusMonotonic ==
    [][\A i \in OrderIdx :
         LET old == Orders[i].status
             new == order_executor'.orders[i].status
         IN  /\ old \in Terminal => new = old
             /\ old = "PENDING" => new \in Terminal \cup {"PENDING"}]_vars

\* C4 (as claimed): each order id appears in at most one of pending_orders,
\* completed_orders and failed_orders, and at most once within each list.
IdCount(list, id) ==
    Cardinality({k \in 1..Len(list) : Orders[list[k]].order_id = id})

C4_IdInAtMostOneTable ==
    \A id \in OrderIds :
        (IF id \in DOMAIN order_executor.pending_orders THEN 1 ELSE 0)
        + IdCount(order_executor.completed_orders, id)
        + IdCount(order_executor.failed_orders, id) <= 1

\* C5: an execute_order call whose execution succeeds returns with the order
\* FILLED, absent from pending_orders, once in completed_orders and not in
\* failed_orders, the registered filled-callback invoked exactly once for
\* the order and the failed-callback not at all.
C5_SuccessEndsFilled ==
    \A c \in Callers :
        (pc[c] = "done" /\ ctx[c].outcome = "success") =>
            /\ ctx[c].result = "success"
            /\ ctx[c].ret.status = "FILLED"
            /\ ~ctx[c].ret.pending
            /\ ctx[c].ret.completed = 1
            /\ ctx[c].ret.failed = 0
            /\ ctx[c].ret.filled_cb = (IF config.callbacks_set THEN 1 ELSE 0)
            /\ ctx[c].ret.failed_cb = 0
            /\ Orders[ctx[c].ord].filled_cb = ctx[c].ret.filled_cb
            /\ Orders[ctx[c].ord].failed_cb = 0

\* C6 (as claimed): an execute_order call whose execution fails, by an
\* unsuccessful result or by an exception, returns with the order FAILED,
\* absent from pending_orders, in failed_orders, and the registered
\* failed-callback invoked exactly once for the order.
C6_FailureEndsFailedWithCallback ==
    \A c \in Callers :
        (pc[c] = "done" /\ ctx[c].outcome \in {"fail", "raise"}) =>
            /\ ctx[c].ret.status = "FAILED"
            /\ ~ctx[c].ret.pending
            /\ ctx[c].ret.failed = 1
            /\ config.callbacks_set => ctx[c].ret.failed_cb = 1

\* C7: when the filled- or failed-callback ends, raising or not,
\* execute_order does what it does after a callback that returned normally:
\* it only removes the order from pending_orders (status and the completed
\* and failed lists stay as they were) and returns the result of the
\* execution; the exception does not reach execute_order's except branch.
C7_CallbackFailureContained ==
    [][\A c \in Callers :
         (pc[c] \in {"filled_cb", "failed_cb"} /\ pc'[c] = "done") =>
             /\ order_executor' = ExRemovePending(order_executor, ctx[c].ord)
             /\ ctx'[c].result = (IF pc[c] = "filled_cb" THEN "success" ELSE "failure")
             /\ ctx'[c].ret = Snapshot(order_executor', ctx[c].ord)
             /\ ctx'[c].ret.status = Orders[ctx[c].ord].status
             /\ ~ctx'[c].ret.pending]_vars

C7_Witness ==
    \E c \in Callers :
        /\ pc[c] = "done" /\ ctx[c].cb_raised
        /\ ctx[c].outcome = "success" /\ ctx[c].result = "success"

(* -------------------------- LiveTradingSystem -------------------------- *)
\* Bars the data feed delivers in one run of SpecSys.
MaxBars == 2
\* Orders created in one run of SpecSys.
MaxSysOrders == 2
\* Largest position_management.max_positions explored.
MaxPositionsCfg == 1

\* market_data.close of a bar / exchange.get_market_data(symbol).close.
BarPrices == {R(100), R(90)}
\* account_info.total_wallet_balance as the exchange reports it.
Balances == {R(10000)}
\* position_size / price of a strategy signal (calculate_position_size).
SysQuantities == {R(1)}

\* asyncio.run_coroutine_threadsafe creates a task per bar; task names are
\* arbitrary, the first free slot is taken.
TaskSlots == <<"t1", "t2", "t3">>
FreeSlots == {k \in 1..Len(TaskSlots) : pc[TaskSlots[k]] = "idle"}
FirstFreeSlot == TaskSlots[CHOOSE k \in FreeSlots : \A j \in FreeSlots : k <= j]

InitSys ==
    /\ now = 0
    /\ config \in [simulation_mode : BOOLEAN, max_retry_count : 0..MaxRetry,
                    callbacks_set : {TRUE}, max_positions : 0..MaxPositionsCfg,
                    position_side : PositionSideKinds]
    /\ order_executor = EmptyExecutor
    /\ pc = [p \in Procs |-> IF p = "main" THEN "init" ELSE "idle"]
    /\ ctx = [p \in Procs |-> NoCtx]
    /\ position_manager = EmptyPositionManager
    /\ pm_call = NoCall
    /\ steps = 0
    /\ running = FALSE
    /\ risk_manager = EmptyRiskManager
    /\ strategy = [last_signal_action |-> "None"]
    /\ bars = 0
    /\ InitAux

\* Where a coroutine is after its handler returned: a data task ends, the
\* main loop goes to its asyncio.sleep.
AfterReturn(p) == IF p = "main" THEN "ml_sleep" ELSE "idle"

\* The end of the atomic segment of coroutine p with the component states
\* ex, pm, rm its code has produced.
Return(p, ex, pm, rm) ==
    /\ order_executor' = ex
    /\ position_manager' = pm
    /\ risk_manager' = rm
    /\ pc' = [pc EXCEPT ![p] = AfterReturn(p)]
    /\ ctx' = [ctx EXCEPT ![p] = NoCtx]

\* _close_position up to the await inside execute_order: the closing signal
\* (position.side.value may raise, caught at line 314), the order of
\* quantity position.size * close_price / close_price, its registration.
ClosePositionEnter(p, ex, pm, rm, position, size, close_price) ==
    IF SideValueRaises(position.side)
    THEN Return(p, ex, pm, rm)
    ELSE /\ Len(ex.orders) < MaxSysOrders
         /\ LET action == IF position.side = "LONG" THEN "SELL" ELSE "BUY"
                order == CreateOrderFromSignal(position.symbol, action, size, close_price)
                e1 == ExRegister(ex, order)
                i == Len(e1.orders)
            IN  IF ExecutionSleeps
                THEN /\ order_executor' = e1
                     /\ position_manager' = pm
                     /\ risk_manager' = rm
                     /\ pc' = [pc EXCEPT ![p] = "cp_exec"]
                     /\ ctx' = [ctx EXCEPT ![p] =
                                  [NoCtx EXCEPT !.ord = i, !.close = close_price]]
                ELSE Return(p, ExExcept(e1, i), pm, rm)

\* _check_position_management: the stop-loss/take-profit close.  The elif
\* calls strategy.should_close_position with two arguments where it takes
\* one: the TypeError is caught at line 267 and nothing is closed.
CheckPositionManagement(p, ex, pm, rm, close) ==
    IF TradingSymbol \notin DOMAIN pm.positions
    THEN Return(p, ex, pm, rm)
    ELSE LET position == pm.positions[TradingSymbol]
         IN  IF ShouldForceClosePosition(position, close)
             THEN ClosePositionEnter(p, ex, pm, rm, position, position.size, close)
             ELSE Return(p, ex, pm, rm)

\* _on_order_filled: a filled BUY opens (or adds to) a LONG position, passing
\* the side as the str "LONG"; a filled SELL changes nothing (pass).
FilledSide == IF config.position_side = "enum" THEN "LONG" ELSE "LONG_str"
OnOrderFilled(pm, order) ==
    IF order.side = "BUY"
    THEN PmOpen(pm, order.symbol, FilledSide, order.filled_quantity, order.filled_price)
    ELSE pm

\* execute_order from the end of the simulated latency to its return, with
\* the callbacks of the system, which do not await: the executor state ...
ExecuteOrderFinish(ex, i, success) ==
    LET e1 == IF success THEN ExFilled(ex, i) ELSE ExFailedResult(ex, i)
        e2 == IF success THEN [e1 EXCEPT !.orders[i].filled_cb = @ + 1]
                         ELSE [e1 EXCEPT !.orders[i].failed_cb = @ + 1]
    IN  ExRemovePending(e2, i)

\* ... and the position manager after the filled-callback.
PositionsAfterExecution(pm, ex, i, success) ==
    IF success THEN OnOrderFilled(pm, ExFilled(ex, i).orders[i]) ELSE pm

\* start() up to its first await: running, the event loop reference, the
\* data feed started.
Start ==
    /\ pc["main"] = "init" /\ ~running
    /\ running' = TRUE
    /\ pc' = [pc EXCEPT !["main"] = "start_account"]
    /\ UNCHANGED <<auxVars, now, config, order_executor, ctx, pmVars, risk_manager, strategy, bars>>

\* What one stop() that passed its running check completes, in order, inside
\* its try block: data_feed.stop(), exchange.close(), _save_final_state().
\* An exception of data_feed.stop() or of exchange.close() goes to the except
\* branch of stop(), which logs it; _save_final_state() catches its own
\* exceptions, so that a failed write leaves no snapshot.
StopOutcomes == {"ok", "feed_raises", "close_raises", "save_fails"}
StopLog(outcome) ==
    CASE outcome = "ok"           -> <<"stop", "feed_stopped", "exchange_closed", "state_saved">>
      [] outcome = "feed_raises"  -> <<"stop">>
      [] outcome = "close_raises" -> <<"stop", "feed_stopped">>
      [] outcome = "save_fails"   -> <<"stop", "feed_stopped", "exchange_closed">>

\* start() after exchange.get_account_info(): the account is recorded and
\* _main_loop entered; an exception (ok = FALSE) leads to stop(), which
\* returns at once when the system is already stopped.
StartResume(ok, balance, outcome) ==
    /\ pc["main"] = "start_account"
    /\ IF ok
       THEN /\ risk_manager' = ResetDailyStats(UpdateAccountInfo(risk_manager, balance))
            /\ pc' = [pc EXCEPT !["main"] = IF running THEN "ml_account" ELSE "stopped"]
            /\ UNCHANGED <<running, shutdown>>
       ELSE /\ running' = FALSE
            /\ shutdown' = IF running THEN shutdown \o StopLog(outcome) ELSE shutdown
            /\ pc' = [pc EXCEPT !["main"] = "stopped"]
            /\ UNCHANGED risk_manager
    /\ UNCHANGED <<rm_call, feed, feed_call, exchange, now, config, order_executor, ctx,
                   pmVars, strategy, bars>>

\* stop(), from the signal handler's task, on a running system: running is
\* cleared first, then the three steps run up to the first one that raises.
\* (The only await that can suspend is exchange.close(); running is already
\* False by then, so the steps of other tasks interleave after this one.)
Stop(outcome) ==
    /\ running
    /\ running' = FALSE
    /\ shutdown' = shutdown \o StopLog(outcome)
    /\ UNCHANGED <<rm_call, feed, feed_call, exchange, now, config, order_executor, pc, ctx,
                   pmVars, risk_manager, strategy, bars>>

\* _main_loop after exchange.get_account_info(); an exception goes to the
\* except branch and its asyncio.sleep(1) ("ml_error_sleep").
MainAccount(ok, balance) ==
    /\ pc["main"] = "ml_account"
    /\ IF ok
       THEN /\ risk_manager' = UpdateAccountInfo(risk_manager, balance)
            /\ pc' = [pc EXCEPT !["main"] = "ml_positions"]
       ELSE /\ pc' = [pc EXCEPT !["main"] = "ml_error_sleep"]
            /\ UNCHANGED risk_manager
    /\ UNCHANGED <<auxVars, now, config, order_executor, ctx, pmVars, running, strategy, bars>>

\* _main_loop after exchange.get_positions(): the positions fetched are
\* iterated with an empty body (lines 169-171), then the cleanups (no order is
\* max_age_hours = 24 old within a run), then _check_force_close_positions
\* up to its first await: with trading disabled it takes the list of live
\* positions and fetches the market data of the first one.
MainPositions(ok, expired) ==
    /\ pc["main"] = "ml_positions"
    /\ IF ok
       THEN LET pm1 == PmCleanup(position_manager, expired)
                live == ActivePositions(pm1)
            IN  /\ position_manager' = pm1
                /\ IF ~risk_manager.trading_enabled /\ live # {}
                   THEN /\ pc' = [pc EXCEPT !["main"] = "fc_market"]
                        /\ ctx' = [ctx EXCEPT !["main"] =
                                     [NoCtx EXCEPT
                                        !.position = pm1.positions[TradingSymbol],
                                        !.closes = Len(pm1.position_history)]]
                   ELSE /\ pc' = [pc EXCEPT !["main"] = "ml_sleep"]
                        /\ UNCHANGED ctx
       ELSE /\ pc' = [pc EXCEPT !["main"] = "ml_error_sleep"]
            /\ UNCHANGED <<position_manager, ctx>>
    /\ UNCHANGED <<auxVars, now, config, order_executor, pm_call, steps, sysVars>>

\* The size of the Position object the sweep holds: close_position sets the
\* size of the object it closes to 0, so a position closed since the list
\* was taken has size 0.
HeldPositionSize(pm, c) ==
    IF TradingSymbol \in DOMAIN pm.positions /\ Len(pm.position_history) = c.closes
    THEN pm.positions[TradingSymbol].size
    ELSE RZero

\* _check_force_close_positions after exchange.get_market_data(): the call
\* of _close_position; an exception ends the sweep (line 327).
ForceMarket(ok, price) ==
    /\ pc["main"] = "fc_market"
    /\ IF ok
       THEN ClosePositionEnter("main", order_executor, position_manager, risk_manager,
                               ctx["main"].position,
                               HeldPositionSize(position_manager, ctx["main"]), price)
       ELSE Return("main", order_executor, position_manager, risk_manager)
    /\ UNCHANGED <<auxVars, now, config, pm_call, steps, running, strategy, bars>>

\* _main_loop after asyncio.sleep: the while self.running test.
MainWake ==
    /\ pc["main"] \in {"ml_sleep", "ml_error_sleep"}
    /\ pc' = [pc EXCEPT !["main"] = IF running THEN "ml_account" ELSE "stopped"]
    /\ UNCHANGED <<auxVars, now, config, order_executor, ctx, pmVars, sysVars>>

\* _on_market_data (feed thread): a task is created while running.
OnMarketData(close) ==
    /\ running
    /\ bars < MaxBars
    /\ FreeSlots # {}
    /\ pc' = [pc EXCEPT ![FirstFreeSlot] = "scheduled"]
    /\ ctx' = [ctx EXCEPT ![FirstFreeSlot] = [NoCtx EXCEPT !.close = close]]
    /\ bars' = bars + 1
    /\ UNCHANGED <<auxVars, now, config, order_executor, pmVars, running, risk_manager, strategy>>

\* _process_market_data_async up to its first await.  signal_action is what
\* the EMA strategy computes for the bar, strong whether the strength
\* reaches min_signal_strength: a signal is emitted when the action is not
\* HOLD and differs from last_signal_action.
ProcessMarketData(t, signal_action, strong) ==
    /\ pc[t] = "scheduled"
    /\ LET changed == signal_action # "HOLD"
                      /\ signal_action # strategy.last_signal_action
           signal == IF changed /\ strong THEN signal_action ELSE "None"
           pm1 == IF TradingSymbol \in DOMAIN position_manager.positions
                  THEN PmUpdatePrice(position_manager, TradingSymbol, ctx[t].close)
                  ELSE position_manager
       IN  /\ strategy' = IF changed THEN [last_signal_action |-> signal_action]
                                     ELSE strategy
           /\ IF signal # "None"
              THEN /\ position_manager' = pm1
                   /\ pc' = [pc EXCEPT ![t] = "ps_account"]
                   /\ ctx' = [ctx EXCEPT ![t].signal = signal]
                   /\ UNCHANGED <<order_executor, risk_manager>>
              ELSE CheckPositionManagement(t, order_executor, pm1, risk_manager,
                                           ctx[t].close)
    /\ UNCHANGED <<auxVars, now, config, pm_call, steps, running, bars>>

\* _process_signal after exchange.get_account_info(): validation, the
\* max_positions check, and execute_signal up to the await inside
\* execute_order.  Every return and every exception of _process_signal
\* continues with _check_position_management.
ProcessSignal(t, ok, quantity) ==
    /\ pc[t] = "ps_account"
    /\ LET close == ctx[t].close
           rejected ==
               \/ ~ok
               \/ ~ValidateSignal(risk_manager)
               \/ /\ ~HasPosition(position_manager, TradingSymbol)
                  /\ ~CanOpenNewPosition(position_manager)
           order == CreateOrderFromSignal(TradingSymbol, ctx[t].signal, quantity, close)
           e1 == ExRegister(order_executor, order)
           i == Len(e1.orders)
       IN  IF rejected
           THEN CheckPositionManagement(t, order_executor, position_manager,
                                        risk_manager, close)
           ELSE /\ Len(order_executor.orders) < MaxSysOrders
                /\ IF ExecutionSleeps
                   THEN /\ order_executor' = e1
                        /\ pc' = [pc EXCEPT ![t] = "ps_exec"]
                        /\ ctx' = [ctx EXCEPT ![t].ord = i]
                        /\ UNCHANGED <<position_manager, risk_manager>>
                   ELSE CheckPositionManagement(t, ExExcept(e1, i), position_manager,
                                                risk_manager, close)
    /\ UNCHANGED <<auxVars, now, config, pm_call, steps, running, strategy, bars>>

\* _process_signal after execute_signal: the execution result, the callback,
\* the log line, then _check_position_management.
ProcessSignalExecuted(t, success) ==
    /\ pc[t] = "ps_exec"
    /\ LET i == ctx[t].ord
       IN  CheckPositionManagement(
               t, ExecuteOrderFinish(order_executor, i, success),
               PositionsAfterExecution(position_manager, order_executor, i, success),
               risk_manager, ctx[t].close)
    /\ UNCHANGED <<auxVars, now, config, pm_call, steps, running, strategy, bars>>

\* _close_position after execute_signal: on success close_position at the
\* close price and record_trade with its realized PnL.
ClosePositionExecuted(p, success) ==
    /\ pc[p] = "cp_exec"
    /\ LET i == ctx[p].ord
           symbol == order_executor.orders[i].symbol
           ex1 == ExecuteOrderFinish(order_executor, i, success)
           pm1 == PositionsAfterExecution(position_manager, order_executor, i, success)
           closed == HasPosition(pm1, symbol)
           pm2 == PmClose(pm1, symbol, ctx[p].close)
           h == pm2.position_history
       IN  IF success
           THEN IF closed /\ ~SideValueRaises(h[Len(h)].side)
                THEN Return(p, ex1, pm2, RecordTrade(risk_manager, h[Len(h)].realized_pnl))
                ELSE Return(p, ex1, pm2, risk_manager)
           ELSE Return(p, ex1, pm1, risk_manager)
    /\ UNCHANGED <<auxVars, now, config, pm_call, steps, running, strategy, bars>>

\* RiskManager.disable_trading / enable_trading (operator controls).
DisableTrading ==
    /\ risk_manager' = [risk_manager EXCEPT !.trading_enabled = FALSE]
    /\ UNCHANGED <<auxVars, now, config, order_executor, pc, ctx, pmVars, running, strategy, bars>>

EnableTrading ==
    /\ risk_manager' = [risk_manager EXCEPT !.trading_enabled = TRUE]
    /\ UNCHANGED <<auxVars, now, config, order_executor, pc, ctx, pmVars, running, strategy, bars>>

\* No action reads what the shutdown completed, so the trading behaviour is
\* explored along the complete shutdown; NextLifecycle below enumerates the
\* outcomes of the shutdown steps.
NextSys ==
    \/ Tick
    \/ Start
    \/ \E ok \in BOOLEAN, b \in Balances : StartResume(ok, b, "ok")
    \/ Stop("ok")
    \/ \E ok \in BOOLEAN, b \in Balances : MainAccount(ok, b)
    \/ \E ok \in BOOLEAN, e \in SUBSET {TradingSymbol} : MainPositions(ok, e)
    \/ \E ok \in BOOLEAN, p \in BarPrices : ForceMarket(ok, p)
    \/ MainWake
    \/ \E p \in BarPrices : OnMarketData(p)
    \/ \E t \in DataTasks, a \in {"HOLD", "BUY", "SELL"}, strong \in BOOLEAN :
           ProcessMarketData(t, a, strong)
    \/ \E t \in DataTasks, ok \in BOOLEAN, q \in SysQuantities : ProcessSignal(t, ok, q)
    \/ \E t \in DataTasks, ok \in BOOLEAN : ProcessSignalExecuted(t, ok)
    \/ \E p \in Procs, ok \in BOOLEAN : ClosePositionExecuted(p, ok)
    \/ DisableTrading
    \/ EnableTrading

SpecSys == InitSys /\ [][NextSys]_vars

\* The life cycle of the system alone: start(), the main loop and stop()
\* with every outcome of its steps, no bar delivered.
NextLifecycle ==
    \/ Tick
    \/ Start
    \/ \E ok \in BOOLEAN, b \in Balances, o \in StopOutcomes : StartResume(ok, b, o)
    \/ \E o \in StopOutcomes : Stop(o)
    \/ \E ok \in BOOLEAN, b \in Balances : MainAccount(ok, b)
    \/ \E ok \in BOOLEAN, e \in SUBSET {TradingSymbol} : MainPositions(ok, e)
    \/ MainWake
    \/ DisableTrading
    \/ EnableTrading

SpecLifecycle == InitSys /\ [][NextLifecycle]_vars

(* ----------------------- claims on LiveTradingSystem ------------------- *)
\* The data tasks that are inside execute_order (between its entry and its
\* return) for an order of symbol s, entered through _process_signal.
ExecutingSignal(s) ==
    {t \in DataTasks : pc[t] = "ps_exec" /\ Orders[ctx[t].ord].symbol = s}

\* C1 (as claimed): for every symbol, at most one order execution started by
\* the market-data-triggered tasks is in flight at any time.
C1_OneExecutionInFlight ==
    \A s \in Symbols : Cardinality(ExecutingSignal(s)) <= 1

\* The sweep of the main loop is suspended inside _check_force_close_positions
\* (at get_market_data or inside _close_position's execute_signal).
SweepSuspended == pc["main"] \in {"fc_market", "cp_exec"}

\* A data task is suspended inside execute_signal, called by _process_signal
\* or by the _close_position of _check_position_management: its order for
\* the symbol is executing.
ProcessingSuspended(t) == pc[t] \in {"ps_exec", "cp_exec"}

\* C2 (as claimed): the sweep of the main loop and the market-data-triggered
\* processing of the same symbol are never both inside their handling of the
\* symbol's position: while one is suspended there the other is outside.
C2_SweepExcludesProcessing ==
    ~(SweepSuspended /\ \E t \in DataTasks : ProcessingSuspended(t))

\* C10: in the running system the number of live positions never exceeds
\* max_positions, whatever the interleaving of the signal processing tasks.
C10_LivePositionsWithinMax ==
    Cardinality(ActivePositions(position_manager)) <= config.max_positions

\* The limit is reached while another task that passed the check before the
\* position was opened is still inside execute_order.
C10_Witness ==
    /\ running
    /\ Cardinality(ActivePositions(position_manager)) = config.max_positions
    /\ HasPosition(position_manager, TradingSymbol)
    /\ \E t \in DataTasks : pc[t] = "ps_exec"

(* --------------------------- RiskManager callers ------------------------ *)
\* Calls of the RiskManager operations made in one run of SpecRM.
MaxRMCalls == 4

\* account_info.total_wallet_balance / available_balance, trade PnL, signal
\* strength and the configured sizing parameters the callers pass.
RMBalances == {R(10000), R(8000)}
RMPnLs == {R(0 - 600), R(100)}
RMAvailable == {R(0), R(5), R(100), R(10000)}
RMStrengths == {R(0), <<1, 2>>, R(1)}
RMPercentages == {<<1, 2>>, MaxPositionPercentage, R(1)}
RMLeverages == {<<1, 2>>, MaxLeverage}
RMEntryPrices == {R(100)}
RMPrices == {R(94), R(98), R(99), R(102), R(106), R(107)}

\* A RiskManager as constructed, or one that has recorded all but one of
\* the day's allowed trades.
InitRM ==
    /\ now = 0
    /\ config = [simulation_mode |-> TRUE, max_retry_count |-> MaxRetry,
                 callbacks_set |-> TRUE, max_positions |-> DefaultMaxPositions,
                 position_side |-> "enum"]
    /\ order_executor = EmptyExecutor
    /\ pc = [p \in Procs |-> "idle"]
    /\ ctx = [p \in Procs |-> NoCtx]
    /\ position_manager = EmptyPositionManager
    /\ pm_call = NoCall
    /\ steps = 0
    /\ running = FALSE
    /\ risk_manager \in {[EmptyRiskManager EXCEPT !.trades_today = t] :
                            t \in {0, MaxTradesPerDay - 1}}
    /\ strategy = [last_signal_action |-> "None"]
    /\ bars = 0
    /\ rm_call = NoRmCall
    /\ feed = EmptyFeed("binance")
    /\ feed_call = NoFeedCall
    /\ exchange = EmptyExchange
    /\ shutdown = <<>>

\* One call: rm2 is the RiskManager after it, call what was called.
RmStep(rm2, call) ==
    /\ rm_call.n < MaxRMCalls
    /\ risk_manager' = rm2
    /\ rm_call' = [call EXCEPT !.n = rm_call.n + 1]
    /\ UNCHANGED <<execVars, pmVars, running, strategy, bars, feed, feed_call,
                   exchange, shutdown>>

RmUpdateAccountInfo(balance) ==
    RmStep(UpdateAccountInfo(risk_manager, balance),
           [op |-> "update_account_info", n |-> 0])

RmRecordTrade(pnl) ==
    RmStep(RecordTrade(risk_manager, pnl), [op |-> "record_trade", n |-> 0])

RmResetDailyStats ==
    RmStep(ResetDailyStats(risk_manager), [op |-> "reset_daily_stats", n |-> 0])

RmEnableTrading ==
    RmStep([risk_manager EXCEPT !.trading_enabled = TRUE],
           [op |-> "enable_trading", n |-> 0])

RmDisableTrading ==
    RmStep([risk_manager EXCEPT !.trading_enabled = FALSE],
           [op |-> "disable_trading", n |-> 0])

RmValidateSignal ==
    RmStep(risk_manager,
           [op |-> "validate_signal", n |-> 0, ret |-> ValidateSignal(risk_manager)])

RmCalculatePositionSize(available_balance, strength, percentage, leverage) ==
    RmStep(risk_manager,
           [op |-> "calculate_position_size", n |-> 0,
            available_balance |-> available_balance, strength |-> strength,
            percentage |-> percentage, min_size |-> MinPositionSize,
            leverage |-> leverage,
            ret |-> CalculatePositionSize(available_balance, strength, percentage,
                                          MinPositionSize, leverage)])

RmShouldForceClosePosition(side, entry_price, current_price) ==
    RmStep(risk_manager,
           [op |-> "should_force_close_position", n |-> 0, side |-> side,
            entry_price |-> entry_price, price |-> current_price,
            ret |-> ShouldForceClosePosition(
                        NewPosition(TradingSymbol, side, R(1), entry_price),
                        current_price)])

NextRM ==
    \/ \E b \in RMBalances : RmUpdateAccountInfo(b)
    \/ \E p \in RMPnLs : RmRecordTrade(p)
    \/ RmResetDailyStats
    \/ RmEnableTrading
    \/ RmDisableTrading
    \/ RmValidateSignal
    \/ \E a \in RMAvailable, g \in RMStrengths, p \in RMPercentages, l \in RMLeverages :
           RmCalculatePositionSize(a, g, p, l)
    \/ \E d \in Sides, e \in RMEntryPrices, p \in RMPrices :
           RmShouldForceClosePosition(d, e, p)

SpecRM == InitRM /\ [][NextRM]_vars

(* -------------------------- claims on RiskManager ---------------------- *)
\* The step is a RiskManager call of operation op.
RmCalls(op) == rm_call'.n = rm_call.n + 1 /\ rm_call'.op = op

\* The first three reasons to reject a signal.
RejectsBeforeDailyLoss(rm) ==
    \/ ~rm.trading_enabled
    \/ rm.trades_today >= MaxTradesPerDay
    \/ rm.current_drawdown[1] * MaxDrawdownPercentage[2]
           > MaxDrawdownPercentage[1] * rm.current_drawdown[2]

\* Today's loss is above max_daily_loss_percentage of daily_start_balance:
\* -daily_pnl > max_daily_loss_percentage * daily_start_balance.
DailyLossAboveCap(rm) ==
    /\ rm.daily_pnl[1] < 0
    /\ RLt(RMul(MaxDailyLossPercentage, rm.daily_start_balance),
           RSub(RZero, rm.daily_pnl))

\* C11 (as claimed): validate_signal returns false exactly when trading is
\* disabled, or the day's trade count has reached its cap, or the drawdown
\* is above its cap, or today's loss relative to daily_start_balance is
\* above its cap; it changes no RiskManager state.
C11_ValidateRejectsOnAnyOfFour ==
    [][RmCalls("validate_signal") =>
         /\ risk_manager' = risk_manager
         /\ rm_call'.ret = ~(RejectsBeforeDailyLoss(risk_manager)
                             \/ DailyLossAboveCap(risk_manager))]_vars

\* C11 (amended): the daily-loss reason applies only with a positive
\* daily_start_balance; with daily_start_balance <= 0 (no reset_daily_stats
\* yet, or an empty account) a loss never rejects.
C11_ValidateRejectsWithPositiveStart ==
    [][RmCalls("validate_signal") =>
         /\ risk_manager' = risk_manager
         /\ rm_call'.ret = ~(RejectsBeforeDailyLoss(risk_manager)
                             \/ (DailyLossAboveCap(risk_manager)
                                 /\ risk_manager.daily_start_balance[1] > 0))]_vars

\* A signal was rejected for the daily loss alone.
C11_Witness ==
    /\ rm_call.op = "validate_signal" /\ ~rm_call.ret
    /\ ~RejectsBeforeDailyLoss(risk_manager)
    /\ risk_manager.daily_start_balance[1] > 0

\* C12 (as claimed): while current_drawdown is above max_drawdown_percentage
\* only reset_daily_stats or enable_trading lets validate_signal pass again;
\* after any other operation it still rejects.
C12_DrawdownRejectionLatched ==
    [][(/\ RLt(MaxDrawdownPercentage, risk_manager.current_drawdown)
        /\ rm_call'.n = rm_call.n + 1
        /\ rm_call'.op \notin {"reset_daily_stats", "enable_trading"})
       => ~ValidateSignal(risk_manager')]_vars

\* What calculate_position_size was called with and what it returned.
SizeRaw == RMul(RMul(rm_call.available_balance, rm_call.percentage), rm_call.strength)
SizeCeiling ==
    LET a == RMul(rm_call.available_balance, SizeCeilingFactor)
        b == RMul(rm_call.available_balance, rm_call.leverage)
    IN  IF RLt(b, a) THEN b ELSE a

\* C13 (as claimed): the size lies in [min_position_size, available_balance *
\* max_leverage], never exceeds available_balance * 0.95, and within those
\* bounds equals available_balance * max_position_percentage * strength.
C13_SizeWithinMinAndCeilings ==
    rm_call.op = "calculate_position_size" =>
        /\ RLe(rm_call.min_size, rm_call.ret)
        /\ RLe(rm_call.ret, SizeCeiling)
        /\ (RLe(rm_call.min_size, SizeRaw) /\ RLe(SizeRaw, SizeCeiling))
               => rm_call.ret = SizeRaw

\* C13 (amended): the two ceilings always hold; the minimum holds only when
\* it is not above them (otherwise the size is the lower ceiling, below
\* min_position_size); between the minimum and the ceilings the size is
\* available_balance * max_position_percentage * strength.
C13_CeilingsBeforeMinimum ==
    rm_call.op = "calculate_position_size" =>
        /\ RLe(rm_call.ret, SizeCeiling)
        /\ RLt(SizeCeiling, rm_call.min_size) => rm_call.ret = SizeCeiling
        /\ RLe(rm_call.min_size, SizeCeiling) =>
               /\ RLe(rm_call.min_size, rm_call.ret)
               /\ RLt(SizeRaw, rm_call.min_size) => rm_call.ret = rm_call.min_size
               /\ RLt(SizeCeiling, SizeRaw) => rm_call.ret = SizeCeiling
               /\ (RLe(rm_call.min_size, SizeRaw) /\ RLe(SizeRaw, SizeCeiling))
                      => rm_call.ret = SizeRaw

\* The 0.95 ceiling cut a size that the leverage limit would have allowed.
C13_Witness ==
    /\ rm_call.op = "calculate_position_size"
    /\ rm_call.ret = RMul(rm_call.available_balance, SizeCeilingFactor)
    /\ RLt(rm_call.ret, SizeRaw)
    /\ RLt(rm_call.ret, RMul(rm_call.available_balance, rm_call.leverage))
    /\ RLe(rm_call.min_size, rm_call.ret)

\* C14: should_force_close_position is true exactly at or beyond the stop
\* loss or the take profit: for LONG at price <= entry * (1 - stop) or
\* price >= entry * (1 + take), mirrored for SHORT.
C14_ForceCloseAtBoundaries ==
    rm_call.op = "should_force_close_position" =>
        LET e == rm_call.entry_price
            p == rm_call.price
            down(f) == RMul(e, RSub(R(1), f))
            up(f) == RMul(e, RAdd(R(1), f))
        IN  rm_call.ret =
                (IF rm_call.side = "LONG"
                 THEN RLe(p, down(StopLossPercentage)) \/ RLe(up(TakeProfitPercentage), p)
                 ELSE RLe(up(StopLossPercentage), p) \/ RLe(p, down(TakeProfitPercentage)))

\* LONG entry 100, stop loss 0.02: true at price 98.
C14_Witness ==
    /\ rm_call.op = "should_force_close_position"
    /\ rm_call.side = "LONG" /\ rm_call.entry_price = R(100)
    /\ rm_call.price = R(98) /\ rm_call.ret

(* ------------------- claims on PositionManager, continued -------------- *)
\* The step is a PositionManager call of operation op for symbol s.
PmCalls(op, s) ==
    steps' = steps + 1 /\ pm_call'.op = op /\ pm_call'.symbol = s

\* The price a close_position call closes position at.
CloseCallPrice(position) ==
    IF pm_call'.price = NoPrice THEN position.current_price ELSE pm_call'.price

\* C15: close_position on a live position appends exactly one history
\* record whose realized PnL is (close - entry) * size for LONG and
\* (entry - close) * size for SHORT (0 when closing at the entry price) and
\* leaves no live position; without a live position it returns None and
\* changes nothing.
C15_CloseRealizesPnL ==
    [][\A s \in Symbols : PmCalls("close_position", s) =>
         IF Live(s)
         THEN LET position == Positions[s]
                  price == CloseCallPrice(position)
                  record == History'[Len(History')]
              IN  /\ pm_call'.ret = "closed"
                  /\ Len(History') = Len(History) + 1
                  /\ SubSeq(History', 1, Len(History)) = History
                  /\ record.realized_pnl =
                         (IF position.side = "LONG"
                          THEN RMul(RSub(price, position.entry_price), position.size)
                          ELSE RMul(RSub(position.entry_price, price), position.size))
                  /\ (price = position.entry_price => record.realized_pnl = RZero)
                  /\ ~LiveNext(s)
         ELSE /\ pm_call'.ret = "None"
              /\ position_manager' = position_manager]_vars

\* A SHORT position entered at 100 was closed at 120: realized PnL -20.
C15_Witness ==
    /\ pm_call.op = "close_position" /\ pm_call.ret = "closed"
    /\ pm_call.price = R(120)
    /\ ~Live(pm_call.symbol)
    /\ Len(History) = 1
    /\ History[1].side = "SHORT" /\ History[1].entry_price = R(100)
    /\ History[1].realized_pnl = R(0 - 20)

\* C16: the first open_position sets size and entry_price to the fill; every
\* same-side open_position after it adds its size and keeps entry_price *
\* size equal to the sum of price * size over the fills.
C16_WeightedAverageEntry ==
    [][\A s \in Symbols : PmCalls("open_position", s) =>
         IF Live(s)
         THEN (pm_call'.side = Positions[s].side =>
                 /\ LiveNext(s)
                 /\ Positions'[s].side = Positions[s].side
                 /\ Positions'[s].size = RAdd(Positions[s].size, pm_call'.size)
                 /\ RMul(Positions'[s].entry_price, Positions'[s].size) =
                        RAdd(RMul(Positions[s].entry_price, Positions[s].size),
                             RMul(pm_call'.price, pm_call'.size)))
         ELSE /\ Positions'[s].size = pm_call'.size
              /\ Positions'[s].entry_price = pm_call'.price]_vars

\* Size 1 at 100 plus size 1 at 120: entry 110, size 2.
C16_Witness ==
    /\ pm_call.op = "open_position"
    /\ pm_call.price = R(120) /\ pm_call.size = R(1)
    /\ Live(pm_call.symbol)
    /\ Positions[pm_call.symbol].size = R(2)
    /\ Positions[pm_call.symbol].entry_price = R(110)

(* ------------------- MarketDataFeed (market_data_feed.py) -------------- *)
\* Messages per run, start()/stop() calls per run.
MaxFeedMsgs == 3
MaxFeedCalls == 4

FeedKinds == {"binance", "mock"}
\* The threads that call start() and stop().
FeedCallers == {"th1", "th2"}
\* The callbacks (indices into Callbacks) that raise on one notification.
RaiseSets == {{}, {1}, {1, 2}}

\* _notify_callbacks: every callback is called with the bar, in order; an
\* exception a callback raises is caught and logged inside the loop.
NotifyUntilRaise(delivered, bar, raises) ==
    [k \in DOMAIN delivered |->
        IF \E j \in raises : j < k THEN delivered[k]
        ELSE Append(delivered[k], bar)]
NotifyCallbacks(delivered, bar, raises) ==
    [k \in DOMAIN delivered |-> Append(delivered[k], bar)]

\* start(), line 130 / 299: a running feed refuses the call.
StartNeverRefused(f) == FALSE
StartRefused(f) == f.is_running

UnbornWorkers == {w \in Workers : feed.workers[w].state = "unborn"}
NewWorker == IF "w1" \in UnbornWorkers THEN "w1" ELSE "w2"
LiveWorkers(f) ==
    {w \in Workers : f.workers[w].state \in {"loop", "waiting", "holding"}}

InitFeed ==
    /\ now = 0
    /\ config = [simulation_mode |-> TRUE, max_retry_count |-> MaxRetry,
                 callbacks_set |-> TRUE, max_positions |-> DefaultMaxPositions,
                 position_side |-> "enum"]
    /\ order_executor = EmptyExecutor
    /\ pc = [p \in Procs |-> "idle"]
    /\ ctx = [p \in Procs |-> NoCtx]
    /\ position_manager = EmptyPositionManager
    /\ pm_call = NoCall
    /\ steps = 0
    /\ running = FALSE
    /\ risk_manager = EmptyRiskManager
    /\ strategy = [last_signal_action |-> "None"]
    /\ bars = 0
    /\ rm_call = NoRmCall
    /\ feed \in {EmptyFeed(kind) : kind \in FeedKinds}
    /\ feed_call = NoFeedCall
    /\ exchange = EmptyExchange
    /\ shutdown = <<>>

FeedUnchanged ==
    UNCHANGED <<execVars, pmVars, sysVars, rm_call, exchange, shutdown>>

\* One start() or stop() call by thread caller; calls are made one at a
\* time.  noop: the call found nothing to do.
FeedCall(op, caller, noop) ==
    /\ feed.call_pc = "idle"
    /\ feed_call.n < MaxFeedCalls
    /\ feed_call' = [op |-> op, n |-> feed_call.n + 1, caller |-> caller,
                     noop |-> noop]

\* start() up to the worker thread's start (lines 130-141 / 299-308).  The
\* mock feed's start() ends there; BinanceDataFeed goes on to connect.
FeedStart(caller) ==
    /\ FeedCall("start", caller, StartRefused(feed))
    /\ IF StartRefused(feed)
       THEN UNCHANGED feed
       ELSE /\ UnbornWorkers # {}
            /\ feed' = [feed EXCEPT
                   !.is_running = TRUE,
                   !.starter = caller,
                   !.worker_thread = NewWorker,
                   !.workers[NewWorker].state = "loop",
                   !.call_pc = IF feed.kind = "binance" THEN "connecting"
                               ELSE "idle"]
    /\ FeedUnchanged

\* BinanceDataFeed.start() lines 143-162: the kline socket is started, or
\* an exception (ok = FALSE) is logged and is_running reset.
FeedStartConnect(ok) ==
    /\ feed.call_pc = "connecting"
    /\ feed' = [feed EXCEPT
           !.call_pc = "idle",
           !.socket = IF ok THEN "open" ELSE @,
           !.is_running = IF ok THEN @ ELSE FALSE]
    /\ UNCHANGED feed_call
    /\ FeedUnchanged

\* stop() up to the join: is_running is cleared and the socket stopped; a
\* worker thread that is alive is joined with a timeout of 5 s.
FeedStop(caller) ==
    /\ FeedCall("stop", caller, ~feed.is_running)
    /\ feed' = [feed EXCEPT
           !.is_running = FALSE,
           !.socket = IF @ = "open" THEN "closed" ELSE @,
           !.call_pc = IF feed.worker_thread \in LiveWorkers(feed)
                       THEN "joining" ELSE "idle"]
    /\ FeedUnchanged

\* A worker that stays where it is for more than the 5 s of the join: inside
\* a callback that does not return, or (mock feed) inside
\* time.sleep(self.interval).  A worker waiting in get(timeout=1) is back at
\* the loop test within a second.
WorkerBlocked(f, w) ==
    \/ f.workers[w].state = "holding"
    \/ f.kind = "mock" /\ f.workers[w].state = "loop"

\* stop(), worker_thread.join(timeout=5) returns: the thread has ended, or
\* the timeout has passed with the thread blocked.
FeedStopJoin ==
    /\ feed.call_pc = "joining"
    /\ \/ feed.workers[feed.worker_thread].state = "dead"
       \/ WorkerBlocked(feed, feed.worker_thread)
    /\ feed' = [feed EXCEPT !.call_pc = "idle"]
    /\ UNCHANGED feed_call
    /\ FeedUnchanged

\* _process_kline_data, called by the socket's thread for each message:
\* only a completed kline is put on data_queue; put never blocks.
ProcessKlineData(completed) ==
    /\ feed.kind = "binance" /\ feed.socket = "open"
    /\ feed.received < MaxFeedMsgs
    /\ LET bar == feed.received + 1
       IN  feed' = [feed EXCEPT
               !.received = bar,
               !.data_queue = IF completed THEN Append(@, bar) ELSE @,
               !.accepted = IF completed THEN @ \cup {bar} ELSE @]
    /\ UNCHANGED feed_call
    /\ FeedUnchanged

\* _data_worker, `while self.is_running`: the thread ends when the feed is
\* not running.
WorkerCheck(w) ==
    /\ feed.workers[w].state = "loop"
    /\ feed' = [feed EXCEPT !.workers[w].state =
                   IF feed.is_running THEN "waiting" ELSE "dead"]
    /\ UNCHANGED feed_call
    /\ FeedUnchanged

\* BinanceDataFeed._data_worker, data_queue.get(timeout=1) returns a bar.
WorkerGet(w) ==
    /\ feed.kind = "binance"
    /\ feed.workers[w].state = "waiting"
    /\ feed.data_queue # <<>>
    /\ feed' = [feed EXCEPT
           !.workers[w] = [state |-> "holding", bar |-> Head(feed.data_queue)],
           !.data_queue = Tail(@)]
    /\ UNCHANGED feed_call
    /\ FeedUnchanged

\* data_queue.get(timeout=1) raises queue.Empty: continue.
WorkerTimeout(w) ==
    /\ feed.kind = "binance"
    /\ feed.workers[w].state = "waiting"
    /\ feed.data_queue = <<>>
    /\ feed' = [feed EXCEPT !.workers[w].state = "loop"]
    /\ UNCHANGED feed_call
    /\ FeedUnchanged

\* BinanceDataFeed._data_worker, _notify_callbacks(market_data).
WorkerNotify(w, raises) ==
    /\ feed.workers[w].state = "holding"
    /\ LET bar == feed.workers[w].bar
       IN  feed' = [feed EXCEPT
               !.delivered = NotifyCallbacks(@, bar, raises),
               !.raised = IF raises = {} THEN @ ELSE @ \cup {bar},
               !.workers[w] = [state |-> "loop", bar |-> 0]]
    /\ UNCHANGED feed_call
    /\ FeedUnchanged

\* MockDataFeed._data_worker body: a bar is generated, the callbacks are
\* notified, the thread sleeps for the interval.
MockWorkerGenerate(w, raises) ==
    /\ feed.kind = "mock"
    /\ feed.workers[w].state = "waiting"
    /\ feed.received < MaxFeedMsgs
    /\ LET bar == feed.received + 1
       IN  feed' = [feed EXCEPT
               !.received = bar,
               !.accepted = @ \cup {bar},
               !.delivered = NotifyCallbacks(@, bar, raises),
               !.raised = IF raises = {} THEN @ ELSE @ \cup {bar},
               !.workers[w].state = "loop"]
    /\ UNCHANGED feed_call
    /\ FeedUnchanged

NextFeed ==
    \/ \E caller \in FeedCallers : FeedStart(caller)
    \/ \E ok \in BOOLEAN : FeedStartConnect(ok)
    \/ \E caller \in FeedCallers : FeedStop(caller)
    \/ FeedStopJoin
    \/ \E completed \in BOOLEAN : ProcessKlineData(completed)
    \/ \E w \in Workers : WorkerCheck(w)
    \/ \E w \in Workers : WorkerGet(w)
    \/ \E w \in Workers : WorkerTimeout(w)
    \/ \E w \in Workers, raises \in RaiseSets : WorkerNotify(w, raises)
    \/ \E w \in Workers, raises \in RaiseSets : MockWorkerGenerate(w, raises)

SpecFeed == InitFeed /\ [][NextFeed]_vars

(* ------------------------ claims on MarketDataFeed --------------------- *)
Delivered(k) == feed.delivered[k]
DeliveredBars(k) == {Delivered(k)[i] : i \in 1..Len(Delivered(k))}
CallbackIds == 1..Len(Callbacks)

\* The feed is stopped and every worker thread it started has ended.
FeedQuiescent ==
    ~feed.is_running /\ feed.call_pc = "idle" /\ LiveWorkers(feed) = {}

\* C17 (as claimed): BinanceDataFeed delivers bars to each callback in
\* arrival order, and once the feed is stopped and its workers have ended
\* every bar that was put on data_queue has been delivered to every
\* callback.
C17_AcceptedBarsDeliveredInOrder ==
    feed.kind = "binance" =>
        /\ \A k \in CallbackIds : \A i, j \in 1..Len(Delivered(k)) :
               i < j => Delivered(k)[i] < Delivered(k)[j]
        /\ FeedQuiescent =>
               \A k \in CallbackIds : feed.accepted \subseteq DeliveredBars(k)

\* The capacity the claim gives data_queue: any fixed number below the
\* number of messages of a run.
FeedQueueCapacity == MaxFeedMsgs - 1

\* C18 (as claimed): the number of bars waiting in data_queue never exceeds
\* a fixed capacity.
C18_QueueWithinCapacity == Len(feed.data_queue) <= FeedQueueCapacity

\* C19: a notification reaches every registered callback whether or not
\* one of them raises, the worker thread that notified keeps running, and
\* so every callback has been called with the same bars.
C19_RaisingCallbackDoesNotStopFeed ==
    [][feed'.delivered # feed.delivered =>
         /\ \E bar \in 1..MaxFeedMsgs + 1 : \A k \in CallbackIds :
                feed'.delivered[k] = Append(feed.delivered[k], bar)
         /\ LiveWorkers(feed') = LiveWorkers(feed)
         /\ \A k \in CallbackIds : feed'.delivered[k] = feed'.delivered[1]]_vars

\* The first callback raised on a bar; the second callback received that
\* bar and a later one.
C19_Witness ==
    /\ feed.kind = "binance"
    /\ \E b \in feed.raised :
           /\ b \in DeliveredBars(2)
           /\ \E later \in DeliveredBars(2) : b < later

\* The step is a start() or stop() call.
FeedCalls(op) == feed_call'.n = feed_call.n + 1 /\ feed_call'.op = op
BornWorkers(f) == {w \in Workers : f.workers[w].state # "unborn"}

C22_NoExecutionAfterStop ==
    [][/\ ~running => Len(order_executor'.orders) <= Len(order_executor.orders)
       /\ (running /\ ~running') => order_executor' = order_executor]_vars

\* C23 (as claimed): when the initial exchange.get_account_info() of start()
\* raises, no bar has been processed into a signal and no order execution
\* has been entered since start() was called.
C23_NoTradingBeforeStartupFailure ==
    [][(/\ pc["main"] = "start_account" /\ pc'["main"] = "stopped"
        /\ running /\ ~running')
       => /\ order_executor.orders = <<>>
          /\ strategy.last_signal_action = "None"
          /\ \A t \in DataTasks : pc[t] \in {"idle", "scheduled"}]_vars

(* ------------------- claims on PositionManager, realized PnL ----------- *)
\* The PnL a close or reduce of `size` at `price` realizes on position.
RealizedBy(position, price, size) ==
    IF position.side = "LONG"
    THEN RMul(RSub(price, position.entry_price), size)
    ELSE RMul(RSub(position.entry_price, price), size)

\* C28 (as claimed): every close_position and reduce_position of a live
\* position adds the PnL it realizes to get_total_realized_pnl(), so the
\* total is the sum over all reduces and closes so far.
C28_RealizedPnLConserved ==
    [][\A s \in Symbols :
         /\ (PmCalls("close_position", s) /\ Live(s)) =>
                GetTotalRealizedPnl(position_manager') =
                    RAdd(GetTotalRealizedPnl(position_manager),
                         RealizedBy(Positions[s], CloseCallPrice(Positions[s]),
                                    Positions[s].size))
         /\ (PmCalls("reduce_position", s) /\ Live(s)) =>
                GetTotalRealizedPnl(position_manager') =
                    RAdd(GetTotalRealizedPnl(position_manager),
                         RealizedBy(Positions[s], pm_call'.price,
                                    IF RLe(Positions[s].size, pm_call'.size)
                                    THEN Positions[s].size ELSE pm_call'.size))]_vars

(* --------------------- claims on the live execution path --------------- *)
\* C26 (as claimed): on the live path (simulation_mode false) a call of
\* execute_order that ends in failure leaves the order FAILED, out of
\* pending_orders, and has invoked the failed-callback once, for every
\* max_retry_count >= 0.
C26_LiveFailureSurfaced ==
    \A c \in Callers :
        (/\ pc[c] = "done" /\ ~config.simulation_mode /\ config.callbacks_set
         /\ ctx[c].result = "failure")
        => /\ Orders[ctx[c].ord].status = "FAILED"
           /\ ~ctx[c].ret.pending
           /\ Orders[ctx[c].ord].failed_cb = 1

\* C27 (as claimed): with simulation_mode false no order is FILLED and none
\* reaches completed_orders, the live execution not being implemented.
C27_LivePathNeverFills ==
    ~config.simulation_mode =>
        /\ order_executor.completed_orders = <<>>
        /\ \A i \in 1..Len(Orders) : Orders[i].status # "FILLED"

\* C30 (as claimed): at most one worker thread of a feed is alive and
\* delivering at any time, whatever start() and stop() calls were made.
C30_AtMostOneWorker == Cardinality(LiveWorkers(feed)) <= 1

(* ------------------- claims on the shutdown and the resync --------------- *)
\* C21 (as claimed): a stop() of a running system ends the main loop
\* (running is cleared), stops the data feed, closes the exchange connection
\* and persists the final state, in that order and each exactly once, even
\* if one of the earlier steps raises.
C21_StopCompletesEveryStep ==
    shutdown # <<>> =>
        /\ ~running
        /\ shutdown = <<"stop", "feed_stopped", "exchange_closed", "state_saved">>

\* C24 (as claimed): after each iteration of the main loop in which
\* get_positions() succeeded, the live positions of the local
\* PositionManager are those the venue reported.
C24_LocalAgreesWithVenue ==
    [][(pc["main"] = "ml_positions" /\ pc'["main"] \in {"ml_sleep", "fc_market"})
       => ActivePositions(position_manager') =
              {p.symbol : p \in exchange.mock_positions}]_vars


(* -------------------------- MockExchangeConnector ------------------------ *)
\* The number of create_order calls of a run.
MaxMockOrders == 3
MockOrderTypes == {"MARKET", "LIMIT"}

InitMock ==
    /\ now = 0
    /\ config = [simulation_mode |-> TRUE, max_retry_count |-> MaxRetry,
                 callbacks_set |-> TRUE, max_positions |-> DefaultMaxPositions,
                 position_side |-> "enum"]
    /\ order_executor = EmptyExecutor
    /\ pc = [p \in Procs |-> "idle"]
    /\ ctx = [p \in Procs |-> NoCtx]
    /\ position_manager = EmptyPositionManager
    /\ pm_call = NoCall
    /\ steps = 0
    /\ running = FALSE
    /\ risk_manager = EmptyRiskManager
    /\ strategy = [last_signal_action |-> "None"]
    /\ bars = 0
    /\ rm_call = NoRmCall
    /\ feed = EmptyFeed("binance")
    /\ feed_call = NoFeedCall
    /\ exchange = EmptyExchange
    /\ shutdown = <<>>

MockUnchanged ==
    UNCHANGED <<execVars, pmVars, sysVars, rm_call, feed, feed_call, shutdown>>

\* create_order by coroutine c up to its await (or to its return, for an
\* order that is not a MARKET order): the id MOCK_<order_counter> is taken
\* and the counter incremented with no await in between, the order is
\* stored PENDING.
MockCreateOrder(c, type) ==
    /\ exchange.creating[c] = 0
    /\ Len(exchange.mock_orders) < MaxMockOrders
    /\ LET order_id == exchange.order_counter
       IN  exchange' = [exchange EXCEPT
               !.order_counter = @ + 1,
               !.mock_orders = Append(@, [order_id |-> order_id, type |-> type,
                                          status |-> "PENDING"]),
               !.issued = Append(@, order_id),
               !.creating[c] = IF type = "MARKET" THEN order_id ELSE 0]
    /\ MockUnchanged

\* create_order of a MARKET order after asyncio.sleep(0.1): the order is set
\* FILLED whatever its status is by now (lines 347-351).
MockCreateResume(c) ==
    /\ exchange.creating[c] # 0
    /\ exchange' = [exchange EXCEPT
           !.mock_orders[exchange.creating[c]].status = "FILLED",
           !.creating[c] = 0]
    /\ MockUnchanged

\* cancel_order(order_id): True, and the order CANCELLED, exactly when the
\* order is known and PENDING.
MockCancelOrder(order_id) ==
    LET known == order_id \in DOMAIN exchange.mock_orders
        status == IF known THEN exchange.mock_orders[order_id].status ELSE "None"
        ret == known /\ status = "PENDING"
    IN  /\ exchange' = [exchange EXCEPT
               !.mock_orders = IF ret THEN [@ EXCEPT ![order_id].status = "CANCELLED"] ELSE @,
               !.cancelled = IF ret THEN @ \cup {order_id} ELSE @,
               !.last_cancel = [order_id |-> order_id, ret |-> ret, status |-> status]]
        /\ MockUnchanged

NextMock ==
    \/ \E c \in MockCallers, type \in MockOrderTypes : MockCreateOrder(c, type)
    \/ \E c \in MockCallers : MockCreateResume(c)
    \/ \E order_id \in 1..MaxMockOrders : MockCancelOrder(order_id)

SpecMock == InitMock /\ [][NextMock]_vars

(* -------------------- claims on MockExchangeConnector -------------------- *)
\* C29 (as claimed): the ids create_order assigned are pairwise distinct,
\* cancel_order returned True only for an order that was PENDING, and no
\* order for which cancel_order returned True is FILLED afterwards.
C29_MockOrderLifecycle ==
    /\ \A i, j \in DOMAIN exchange.issued :
           i # j => exchange.issued[i] # exchange.issued[j]
    /\ exchange.last_cancel.ret => exchange.last_cancel.status = "PENDING"
    /\ \A order_id \in exchange.cancelled :
           exchange.mock_orders[order_id].status # "FILLED"


(* ------------------- the force-close sweep with trading disabled --------- *)
\* The system after one BUY bar was executed and filled in simulation mode
\* (its _on_order_filled opened the position), trading disabled since, the
\* main loop in its asyncio.sleep and no data task left: a state SpecSys
\* reaches, from which the main loop runs alone.
InitSweep ==
    /\ now = 0
    /\ config \in [simulation_mode : {TRUE}, max_retry_count : 0..MaxRetry,
                    callbacks_set : {TRUE}, max_positions : 1..MaxPositionsCfg,
                    position_side : PositionSideKinds]
    /\ \E close \in BarPrices :
           LET order == CreateOrderFromSignal(TradingSymbol, "BUY", R(1), close)
               e1 == ExRegister(EmptyExecutor, order)
           IN  /\ order_executor = ExecuteOrderFinish(e1, 1, TRUE)
               /\ position_manager =
                      PositionsAfterExecution(EmptyPositionManager, e1, 1, TRUE)
    /\ pc = [p \in Procs |-> IF p = "main" THEN "ml_sleep" ELSE "idle"]
    /\ ctx = [p \in Procs |-> NoCtx]
    /\ pm_call = NoCall
    /\ steps = 0
    /\ running = TRUE
    /\ risk_manager \in
           {[ResetDailyStats(UpdateAccountInfo(EmptyRiskManager, b))
                EXCEPT !.trading_enabled = FALSE] : b \in Balances}
    /\ strategy = [last_signal_action |-> "BUY"]
    /\ bars = 1
    /\ InitAux

\* The executions of the closing order: one of them succeeds at the latest
\* when the executor can register no further order.
SweepExecuted(success) ==
    /\ success \/ Len(order_executor.orders) < MaxSysOrders
    /\ ClosePositionExecuted("main", success)

NextSweep ==
    \/ Tick
    \/ \E ok \in BOOLEAN, b \in Balances : MainAccount(ok, b)
    \/ \E ok \in BOOLEAN, e \in SUBSET {TradingSymbol} : MainPositions(ok, e)
    \/ \E ok \in BOOLEAN, p \in BarPrices : ForceMarket(ok, p)
    \/ \E success \in BOOLEAN : SweepExecuted(success)
    \/ MainWake

\* execute_signal returns to _close_position: the simulated latency of the
\* executor is finite.  (A step of the main loop from "cp_exec" to its sleep
\* is a step of SweepExecuted.)
SweepReturns ==
    /\ pc["main"] = "cp_exec"
    /\ pc' = [pc EXCEPT !["main"] = "ml_sleep"]

\* The event loop resumes the main loop whenever its sleep or its await is
\* over, and an exchange call that is repeated forever succeeds at some time.
FairSweep ==
    /\ WF_vars(MainWake)
    /\ SF_vars(\E b \in Balances : MainAccount(TRUE, b))
    /\ SF_vars(\E e \in SUBSET {TradingSymbol} : MainPositions(TRUE, e))
    /\ SF_vars(\E p \in BarPrices : ForceMarket(TRUE, p))
    /\ WF_pc(SweepReturns)

SpecSweep == InitSweep /\ [][NextSweep]_vars /\ FairSweep

\* C25 (as claimed): while trading is disabled and the system runs, every
\* open position is eventually closed by the periodic sweep.
C25_SweepEventuallyCloses ==
    (/\ running /\ ~risk_manager.trading_enabled
     /\ ActivePositions(position_manager) # {})
        ~> (ActivePositions(position_manager) = {})

============================================================================
